---- MODULE Spec2Model ----
(***************************************************************************)
(* Model of the ticket-triage batch runner (triage.py) and of the cleanup  *)
(* utility (clean.py).  The file system, the environment and the two       *)
(* inference services are the environment of the program: their answers    *)
(* are drawn nondeterministically from small sets.                         *)
(***************************************************************************)
EXTENDS Integers, Sequences, FiniteSets, TLC

(* ---------------------------- bounds ----------------------------------- *)
MaxOps == 2         \* operations (batch runs, cleanups, direct calls) per behaviour
MaxEntries == 2     \* entries of tickets-original
MaxStreamLen == 2   \* lines of a pull response stream

(* ------------------------ string helpers ------------------------------- *)
StartsWith(s, pre) == Len(s) >= Len(pre) /\ SubSeq(s, 1, Len(pre)) = pre

\* str.endswith
EndsWith(s, suf) ==
    Len(s) >= Len(suf) /\ SubSeq(s, Len(s) - Len(suf) + 1, Len(s)) = suf

\* Python's "sub in s"
Contains(s, sub) ==
    \E i \in 1..(Len(s) + 1) :
        i + Len(sub) - 1 <= Len(s) /\ SubSeq(s, i, i + Len(sub) - 1) = sub

LowerChar(c) ==
    CASE c = "S" -> "s" [] c = "U" -> "u" [] c = "C" -> "c" [] c = "E" -> "e"
      [] c = "F" -> "f" [] c = "I" -> "i" [] c = "N" -> "n" [] c = "H" -> "h"
      [] c = "D" -> "d" [] c = "P" -> "p" [] c = "L" -> "l" [] c = "G" -> "g"
      [] OTHER -> c

RECURSIVE Lower(_)
\* str.lower, over the alphabet of the status texts below
Lower(s) ==
    IF Len(s) = 0 THEN ""
    ELSE LowerChar(SubSeq(s, 1, 1)) \o Lower(SubSeq(s, 2, Len(s)))

(* --------------------------- values ------------------------------------ *)
\* an environment variable or an optional text: unset/None, or a string
Unset == [set |-> FALSE, val |-> ""]
Str(s) == [set |-> TRUE, val |-> s]

Falsy_isNone(v) == ~v.set
\* Python truthiness of an optional string: "not v"
Falsy(v) == ~v.set \/ v.val = ""

NoExc == [type |-> "", msg |-> ""]
Exc(t, m) == [type |-> t, msg |-> m]

(* ------------------------- the prompt ---------------------------------- *)
PromptHead ==
    "\n    You are an expert IT support ticket triaging system. Your task is to analyze the following IT ticket and provide a structured triage report.\n"
    \o "\n    The triage report must include the following sections:\n"
    \o "    - **Urgency**: (e.g., Low, Medium, High, Critical)\n"
    \o "    - **Category**: (e.g., Hardware, Software, Network, Account, Other)\n"
    \o "    - **Summary**: A brief, one-sentence summary of the issue.\n"
    \o "    - **Next Step**: Propose a concrete next action. This should be a numbered list of 1-3 clear, actionable steps.\n"
    \o "    - **New Status**: Based on the \"Next Step\", set the status to one of the following: \"unclear\" (if more information is needed), \"pending next step\" (if the user needs to do something), or \"closed\" (if no action is required).\n"
    \o "\n    Here is the ticket:\n    ---\n    "

PromptTail ==
    "\n    ---\n\n    Please provide the triage report in markdown format.\n    "

prompt(ticket_content) == PromptHead \o ticket_content \o PromptTail

(* ------------------------ backend answers ------------------------------ *)
MOCK_TICKET_CONTENT == "My printer is on fire."
MOCK_REPORT == "Urgency: High, Category: Hardware, Summary: Printer is on fire."

\* what ollama.chat can do: answer, answer without the 'message' key (a
\* KeyError inside the try), raise
ChatOutcomes ==
    { [kind |-> "ok", text |-> Str(MOCK_REPORT), msg |-> ""],
      [kind |-> "ok", text |-> Str(""), msg |-> ""],
      [kind |-> "nokey", text |-> Unset, msg |-> "'message'"],
      [kind |-> "raise", text |-> Unset, msg |-> "Ollama API is down"] }

\* what genai.Client() and generate_content can do
GeminiOutcomes ==
    { [kind |-> "ok", text |-> Str(MOCK_REPORT), msg |-> ""],
      [kind |-> "ok", text |-> Str(""), msg |-> ""],
      [kind |-> "ok", text |-> Unset, msg |-> ""],
      [kind |-> "client_raise", text |-> Unset, msg |-> "Gemini API is down"],
      [kind |-> "generate_raise", text |-> Unset, msg |-> "429 quota exceeded"] }

(* ------------------------- the adapters -------------------------------- *)
triage_ticket_ollama_reraise(ticket_content, ollama_model, chat) ==
    IF Falsy(ollama_model)
    THEN [raised |-> TRUE,
          exc |-> Exc("ValueError", "OLLAMA_MODEL environment variable not set."),
          value |-> "", net |-> << >>]
    ELSE LET call == [api |-> "ollama.chat", model |-> ollama_model.val,
                      content |-> prompt(ticket_content),
                      raised |-> chat.kind = "raise"]
         IN IF chat.kind = "ok"
            THEN [raised |-> FALSE, exc |-> NoExc, value |-> chat.text.val,
                  net |-> <<call>>]
            ELSE [raised |-> TRUE, exc |-> Exc("Exception", chat.msg),
                  value |-> "", net |-> <<call>>]

\* the result of one call of the local adapter: it raises exc, or returns value;
\* net is the list of the network calls it made
triage_ticket_ollama(ticket_content, ollama_model, chat) ==
    IF Falsy(ollama_model)
    THEN [raised |-> TRUE,
          exc |-> Exc("ValueError", "OLLAMA_MODEL environment variable not set."),
          value |-> "", net |-> << >>]
    ELSE LET call == [api |-> "ollama.chat", model |-> ollama_model.val,
                      content |-> prompt(ticket_content),
                      raised |-> chat.kind = "raise"]
         IN IF chat.kind = "ok"
            THEN [raised |-> FALSE, exc |-> NoExc, value |-> chat.text.val,
                  net |-> <<call>>]
            ELSE [raised |-> FALSE, exc |-> NoExc,
                  value |-> "Error during Ollama triage: " \o chat.msg,
                  net |-> <<call>>]

EMPTY_SENTINEL == "Error: Empty response from Gemini."

triage_ticket_gemini_noSentinel(ticket_content, gem) ==
    LET call == [api |-> "gemini.generate_content", model |-> "gemini-2.5-flash",
                 content |-> prompt(ticket_content),
                 raised |-> gem.kind = "generate_raise"]
    IN CASE gem.kind = "client_raise" ->
              [raised |-> FALSE, exc |-> NoExc,
               value |-> "Error during Gemini triage: " \o gem.msg, net |-> << >>]
         [] gem.kind = "generate_raise" ->
              [raised |-> FALSE, exc |-> NoExc,
               value |-> "Error during Gemini triage: " \o gem.msg, net |-> <<call>>]
         [] OTHER ->
              [raised |-> FALSE, exc |-> NoExc,
               value |-> gem.text.val, net |-> <<call>>]

\* the result of one call of the remote adapter
triage_ticket_gemini(ticket_content, gem) ==
    LET call == [api |-> "gemini.generate_content", model |-> "gemini-2.5-flash",
                 content |-> prompt(ticket_content),
                 raised |-> gem.kind = "generate_raise"]
    IN CASE gem.kind = "client_raise" ->
              [raised |-> FALSE, exc |-> NoExc,
               value |-> "Error during Gemini triage: " \o gem.msg, net |-> << >>]
         [] gem.kind = "generate_raise" ->
              [raised |-> FALSE, exc |-> NoExc,
               value |-> "Error during Gemini triage: " \o gem.msg, net |-> <<call>>]
         [] OTHER ->
              [raised |-> FALSE, exc |-> NoExc,
               value |-> IF Falsy(gem.text) THEN EMPTY_SENTINEL ELSE gem.text.val,
               net |-> <<call>>]

(* ---------------------- the pull response stream ------------------------ *)
\* one line of the streamed response of POST /api/pull.  kind "blank" is an
\* empty keep-alive line, "malformed" a line that is not JSON, "connerr" the
\* point at which iter_lines raises a RequestException, "json" an event object
Line(k, hs, st, hp, c, t) ==
    [kind |-> k, hasStatus |-> hs, status |-> st, hasProgress |-> hp,
     completed |-> c, total |-> t]

Lines ==
    { Line("blank", FALSE, "", FALSE, 0, 0),
      Line("malformed", FALSE, "", FALSE, 0, 0),
      Line("connerr", FALSE, "", FALSE, 0, 0),
      Line("json", TRUE, "pulling manifest", TRUE, 1, 2),
      Line("json", TRUE, "success", FALSE, 0, 0),
      Line("json", TRUE, "Download FINISHED", TRUE, 0, 0),
      Line("json", FALSE, "", TRUE, 0, 0) }

\* the event carries a status with a completion keyword
IsTerminal(line) ==
    /\ line.kind = "json"
    /\ line.hasStatus
    /\ (Contains(Lower(line.status), "success")
          \/ Contains(Lower(line.status), "finished"))

\* what the body of the for loop does with one line: go on to the next line,
\* return True, have the RequestException caught (return False), or raise
pull_line(line) ==
    CASE line.kind = "connerr" -> [act |-> "caught", exc |-> NoExc]
      [] line.kind = "blank" -> [act |-> "next", exc |-> NoExc]
      [] line.kind = "malformed" ->
            [act |-> "raise", exc |-> Exc("JSONDecodeError", "Expecting value")]
      [] OTHER ->
            IF IsTerminal(line) THEN [act |-> "true", exc |-> NoExc]
            ELSE IF line.hasProgress /\ line.total = 0
                 THEN [act |-> "raise",
                       exc |-> Exc("ZeroDivisionError", "division by zero")]
                 ELSE [act |-> "next", exc |-> NoExc]

pull_exhausted_false == "False"
\* the value returned when the stream ends without a terminal event
pull_exhausted == "True"

\* state of a call of pull_model_with_progress: lines are the lines consumed so
\* far, pending tells whether the stream holds a line after them, result is ""
\* while the call runs or when it raised, "True" / "False" once it returned
NoPull ==
    [status_code |-> 0, reqexc |-> FALSE, lines |-> << >>,
     pending |-> FALSE, result |-> "", exc |-> NoExc]

(* --------------------- the model availability check --------------------- *)
ListOutcomes ==
    { [kind |-> "raise", models |-> {}, msg |-> "connection refused"],
      [kind |-> "ok", models |-> {"gemma3:12b"}, msg |-> ""],
      [kind |-> "ok", models |-> {"llama3"}, msg |-> ""],
      [kind |-> "ok", models |-> {}, msg |-> ""] }

ensure_list_swallow(lo, model_name) ==
    IF lo.kind = "raise"
    THEN [raised |-> FALSE, exc |-> NoExc, need_pull |-> FALSE]
    ELSE [raised |-> FALSE, exc |-> NoExc, need_pull |-> model_name \notin lo.models]

\* the listing step of ensure_ollama_model_available
ensure_list(lo, model_name) ==
    IF lo.kind = "raise"
    THEN [raised |-> TRUE, exc |-> Exc("Exception", lo.msg), need_pull |-> FALSE]
    ELSE [raised |-> FALSE, exc |-> NoExc, need_pull |-> model_name \notin lo.models]

(* --------------------------- the file system ---------------------------- *)
File(c) == [kind |-> "file", content |-> c]
Dir == [kind |-> "dir", content |-> ""]

\* the entries tickets-original can hold
EntryPool ==
    [n \in {"a.md", ".x.md", "notes.txt", "d.md"} |->
        CASE n = "a.md" -> File(MOCK_TICKET_CONTENT)
          [] n = ".x.md" -> File("VPN drops.")
          [] n = "notes.txt" -> File("not a ticket")
          [] OTHER -> Dir]

Restrict(f, S) == [n \in S |-> f[n]]

OriginalDirs ==
    { Restrict(EntryPool, S) :
        S \in { X \in SUBSET DOMAIN EntryPool : Cardinality(X) <= MaxEntries } }

EmptyDir == Restrict(EntryPool, {})

\* all the orders in which a directory listing can return the names of S
Perms(S) ==
    { s \in [1..Cardinality(S) -> S] :
        \A i, j \in 1..Cardinality(S) : i # j => s[i] # s[j] }

WriteFile_append(dir, name, content) ==
    [n \in DOMAIN dir \cup {name} |->
        IF n = name
        THEN (IF name \in DOMAIN dir
              THEN File(dir[name].content \o content) ELSE File(content))
        ELSE dir[n]]

\* open(path, 'w') and write: creates the file or replaces its content
WriteFile(dir, name, content) ==
    [n \in DOMAIN dir \cup {name} |-> IF n = name THEN File(content) ELSE dir[n]]

RemoveFile(dir, name) == Restrict(dir, DOMAIN dir \ {name})

\* glob.glob(os.path.join(triaged_dir, '*')): '*' does not match a leading dot
glob_star(dir) == { n \in DOMAIN dir : ~StartsWith(n, ".") }

(* ------------------------ the batch runner's text ----------------------- *)
STATUS_BLOCK == "\n\n---\n\n**Status:** new"
TRIAGE_SEPARATOR == "\n\n---\n\n## Triage\n\n"

ticket_with_status(original_content) == original_content \o STATUS_BLOCK

adapter_arg_withStatus(original_content) == ticket_with_status(original_content)
\* the text main hands to the adapter
adapter_arg(original_content) == original_content

updated_content(original_content, triage_report) ==
    ticket_with_status(original_content) \o TRIAGE_SEPARATOR \o triage_report

(* ------------------------------ state ----------------------------------- *)
VARIABLES
    OLLAMA_MODEL,      \* the environment variable
    tickets_original,  \* the input directory: name -> entry
    triaged_exists,    \* whether tickets-triaged exists
    tickets_triaged,   \* the output directory: name -> entry
    pc,                \* position of the running program, "idle" between programs
    ops,               \* programs and direct calls started so far
    args_model,        \* the backend of the running or last batch run or direct call
    pull,              \* the call of pull_model_with_progress
    listing,           \* names os.listdir returned that the loop has not reached
    files,             \* paths glob returned that cleanup has not removed
    last,              \* the running or last operation and how it ended
    netCalls,          \* network calls of the running or last operation
    reads,             \* tickets read by the running or last operation
    writes,            \* files written by the running or last operation
    adapterCalls,      \* adapter invocations of the running or last operation
    cur,               \* summary of the last finished batch run
    triaged0,          \* tickets_triaged when the operation started
    original0          \* tickets_original at the start of the behaviour

vars ==
    <<OLLAMA_MODEL, tickets_original, triaged_exists, tickets_triaged, pc, ops,
      args_model, pull, listing, files, last, netCalls, reads, writes,
      adapterCalls, cur, triaged0, original0>>

envVars == <<OLLAMA_MODEL, tickets_original, original0>>

\* seq counts the batch runs finished in succession with the same selector;
\* same tells whether the last of them got the reports of the one before
NoRun ==
    [valid |-> FALSE, model |-> "", status |-> "", triaged |-> EmptyDir,
     reports |-> EmptyDir, seq |-> 0, same |-> FALSE]

Init ==
    /\ OLLAMA_MODEL \in {Unset, Str(""), Str("gemma3:12b")}
    /\ tickets_original \in OriginalDirs
    /\ original0 = tickets_original
    /\ \/ triaged_exists = FALSE /\ tickets_triaged = EmptyDir
       \/ triaged_exists = TRUE /\ tickets_triaged = [n \in {"archive"} |-> Dir]
    /\ pc = "idle"
    /\ ops = 0
    /\ args_model = ""
    /\ pull = NoPull
    /\ listing = << >>
    /\ files = << >>
    /\ last = [op |-> "", status |-> "", exc |-> NoExc, entered |-> FALSE]
    /\ netCalls = << >>
    /\ reads = << >>
    /\ writes = << >>
    /\ adapterCalls = << >>
    /\ cur = NoRun
    /\ triaged0 = tickets_triaged

\* an operation starts: the records of the one before are dropped
Begin ==
    /\ pc = "idle"
    /\ ops < MaxOps
    /\ ops' = ops + 1
    /\ reads' = << >>
    /\ writes' = << >>
    /\ triaged0' = tickets_triaged
    /\ pull' = NoPull
    /\ listing' = << >>

Running(op) == [op |-> op, status |-> "running", exc |-> NoExc, entered |-> FALSE]

\* the report each ticket got in this run
Reports(calls) ==
    [n \in { calls[i].name : i \in DOMAIN calls } |->
        calls[CHOOSE i \in DOMAIN calls :
                 /\ calls[i].name = n
                 /\ \A j \in DOMAIN calls : calls[j].name = n => j <= i].result.value]

\* the batch run ends, normally or by an uncaught exception
EndMain(status, exc, dir, calls) ==
    /\ pc' = "idle"
    /\ last' = [last EXCEPT !.status = status, !.exc = exc]
    /\ cur' = [valid |-> TRUE, model |-> args_model, status |-> status,
               triaged |-> dir, reports |-> Reports(calls),
               seq |-> IF cur.valid /\ cur.model = args_model /\ cur.status = "ok"
                          /\ status = "ok"
                       THEN 2 ELSE 1,
               same |-> cur.valid /\ cur.reports = Reports(calls)]

(* --------------------------- the batch run ------------------------------ *)
\* parser.parse_args(): --model is 'ollama' (the default) or 'gemini'
MainStart(m) ==
    /\ Begin
    /\ args_model' = m
    /\ last' = Running("main")
    /\ netCalls' = << >>
    /\ adapterCalls' = << >>
    /\ files' = << >>
    /\ pc' = "main_config"
    /\ UNCHANGED <<envVars, triaged_exists, tickets_triaged, cur>>

\* the configuration check of the local backend
MainConfig ==
    /\ pc = "main_config"
    /\ IF args_model = "ollama"
       THEN IF Falsy(OLLAMA_MODEL)
            THEN /\ EndMain("raised",
                       Exc("ValueError",
                           "OLLAMA_MODEL environment variable not set for the ollama model."),
                       tickets_triaged, adapterCalls)
            ELSE /\ pc' = "ensure_list"
                 /\ UNCHANGED <<last, cur>>
       ELSE /\ pc' = "main_mkdir"
            /\ UNCHANGED <<last, cur>>
    /\ UNCHANGED <<envVars, triaged_exists, tickets_triaged, ops, args_model, pull,
                   listing, files, netCalls, reads, writes, adapterCalls, triaged0>>

\* ensure_ollama_model_available: ollama.list() and the search for the model
EnsureList ==
    /\ pc = "ensure_list"
    /\ \E lo \in ListOutcomes :
          LET r == ensure_list(lo, OLLAMA_MODEL.val)
          IN /\ netCalls' = Append(netCalls,
                    [api |-> "ollama.list", model |-> "", content |-> "",
                     raised |-> lo.kind = "raise"])
             /\ IF r.raised
                THEN EndMain("raised", r.exc, tickets_triaged, adapterCalls)
                ELSE /\ pc' = IF r.need_pull THEN "pull_post" ELSE "main_mkdir"
                     /\ UNCHANGED <<last, cur>>
    /\ UNCHANGED <<envVars, triaged_exists, tickets_triaged, ops, args_model, pull,
                   listing, files, reads, writes, adapterCalls, triaged0>>

\* pull_model_with_progress: requests.post and the status check
PullPost ==
    /\ pc = "pull_post"
    /\ \/ \* the request raises a RequestException
          /\ netCalls' = Append(netCalls,
                 [api |-> "POST /api/pull", model |-> OLLAMA_MODEL.val,
                  content |-> "", raised |-> TRUE])
          /\ pull' = [NoPull EXCEPT !.reqexc = TRUE, !.result = "False"]
          /\ pc' = "ensure_after_pull"
       \/ \* a response that is not 200
          /\ netCalls' = Append(netCalls,
                 [api |-> "POST /api/pull", model |-> OLLAMA_MODEL.val,
                  content |-> "", raised |-> FALSE])
          /\ \E code \in {404, 500} :
               pull' = [NoPull EXCEPT !.status_code = code,
                                      !.result = "False"]
          /\ pc' = "ensure_after_pull"
       \/ \* 200: the stream is iterated; it holds a first line or none
          /\ netCalls' = Append(netCalls,
                 [api |-> "POST /api/pull", model |-> OLLAMA_MODEL.val,
                  content |-> "", raised |-> FALSE])
          /\ \E more \in {b \in BOOLEAN : b => MaxStreamLen > 0} :
               pull' = [NoPull EXCEPT !.status_code = 200,
                                      !.pending = more]
          /\ pc' = "pull_iter"
    /\ UNCHANGED <<envVars, triaged_exists, tickets_triaged, ops, args_model,
                   listing, files, last, reads, writes, adapterCalls, cur,
                   triaged0>>

\* pull_model_with_progress: one turn of the loop over response.iter_lines(),
\* or its end when the stream holds no further line
PullIter ==
    /\ pc = "pull_iter"
    /\ IF ~pull.pending
       THEN /\ pull' = [pull EXCEPT !.result = pull_exhausted]
            /\ pc' = "ensure_after_pull"
       ELSE \E line \in Lines,
               more \in {b \in BOOLEAN : b => Len(pull.lines) + 1 < MaxStreamLen} :
            LET r == pull_line(line)
                p == [pull EXCEPT !.lines = Append(pull.lines, line),
                                  !.pending = more]
            IN /\ (line.kind = "connerr" => ~more)
               /\ CASE r.act = "next" ->
                      /\ pull' = p
                      /\ pc' = "pull_iter"
                 [] r.act = "true" ->
                      /\ pull' = [p EXCEPT !.result = "True"]
                      /\ pc' = "ensure_after_pull"
                 [] r.act = "caught" ->
                      /\ pull' = [p EXCEPT !.result = "False", !.reqexc = TRUE]
                      /\ pc' = "ensure_after_pull"
                 [] OTHER ->
                      /\ pull' = [p EXCEPT !.exc = r.exc]
                      /\ pc' = "ensure_after_pull"
    /\ UNCHANGED <<envVars, triaged_exists, tickets_triaged, ops, args_model,
                   listing, files, last, netCalls, reads, writes, adapterCalls,
                   cur, triaged0>>

\* ensure_ollama_model_available after the pull: the returned value is
\* dropped, an exception of the pull is logged and raised again
EnsureAfterPull ==
    /\ pc = "ensure_after_pull"
    /\ IF pull.result = ""
       THEN EndMain("raised", pull.exc, tickets_triaged, adapterCalls)
       ELSE /\ pc' = "main_mkdir"
            /\ UNCHANGED <<last, cur>>
    /\ pull' = NoPull
    /\ UNCHANGED <<envVars, triaged_exists, tickets_triaged, ops, args_model,
                   listing, files, netCalls, reads, writes, adapterCalls, triaged0>>

\* os.makedirs when the directory is missing, then os.listdir(original_dir)
MainMkdir ==
    /\ pc = "main_mkdir"
    /\ triaged_exists' = TRUE
    /\ \E order \in Perms(DOMAIN tickets_original) : listing' = order
    /\ last' = [last EXCEPT !.entered = TRUE]
    /\ pc' = "main_loop"
    /\ UNCHANGED <<envVars, tickets_triaged, ops, args_model, pull, files, netCalls,
                   reads, writes, adapterCalls, cur, triaged0>>

\* the adapter main selects, called on text when the backend does o
CallAdapter(m, text, o) ==
    IF m = "ollama" THEN triage_ticket_ollama(text, OLLAMA_MODEL, o)
    ELSE triage_ticket_gemini(text, o)

\* what the selected backend can do on one call
Outcomes(m) == IF m = "ollama" THEN ChatOutcomes ELSE GeminiOutcomes

\* one turn of the loop over the directory listing
MainLoop ==
    /\ pc = "main_loop"
    /\ listing # << >>
    /\ LET filename == Head(listing)
       IN /\ listing' = Tail(listing)
          /\ IF ~EndsWith(filename, ".md")
             THEN /\ pc' = "main_loop"
                  /\ UNCHANGED <<tickets_triaged, last, netCalls, reads, writes,
                                 adapterCalls, cur>>
             ELSE IF tickets_original[filename].kind = "dir"
             THEN \* open() of a directory
                  /\ EndMain("raised", Exc("IsADirectoryError", filename),
                             tickets_triaged, adapterCalls)
                  /\ UNCHANGED <<tickets_triaged, netCalls, reads, writes, adapterCalls>>
             ELSE \E o \in Outcomes(args_model) :
                    LET original_content == tickets_original[filename].content
                        arg == adapter_arg(original_content)
                        r == CallAdapter(args_model, arg, o)
                        calls == Append(adapterCalls,
                                   [backend |-> args_model, name |-> filename,
                                    arg |-> arg, cause |-> o, result |-> r])
                    IN /\ reads' = Append(reads, filename)
                       /\ netCalls' = netCalls \o r.net
                       /\ adapterCalls' = calls
                       /\ IF r.raised
                          THEN /\ EndMain("raised", r.exc, tickets_triaged, calls)
                               /\ UNCHANGED <<tickets_triaged, writes>>
                          ELSE /\ tickets_triaged' =
                                     WriteFile(tickets_triaged, filename,
                                        updated_content(original_content, r.value))
                               /\ writes' = Append(writes, filename)
                               /\ pc' = "main_loop"
                               /\ UNCHANGED <<last, cur>>
    /\ UNCHANGED <<envVars, triaged_exists, ops, args_model, pull, files, triaged0>>

\* the listing is exhausted: "All tickets have been processed."
MainDone ==
    /\ pc = "main_loop"
    /\ listing = << >>
    /\ EndMain("ok", NoExc, tickets_triaged, adapterCalls)
    /\ UNCHANGED <<envVars, triaged_exists, tickets_triaged, ops, args_model, pull,
                   listing, files, netCalls, reads, writes, adapterCalls, triaged0>>

(* ------------------------- direct adapter calls ------------------------- *)
\* triage_ticket_ollama called by itself, as the tests do
DirectOllama ==
    /\ Begin
    /\ args_model' = "ollama"
    /\ \E chat \in ChatOutcomes :
          LET r == triage_ticket_ollama(MOCK_TICKET_CONTENT, OLLAMA_MODEL, chat)
          IN /\ adapterCalls' = <<[backend |-> "ollama", name |-> "",
                                   arg |-> MOCK_TICKET_CONTENT, cause |-> chat,
                                   result |-> r]>>
             /\ netCalls' = r.net
             /\ last' = [op |-> "direct",
                         status |-> IF r.raised THEN "raised" ELSE "ok",
                         exc |-> r.exc, entered |-> FALSE]
    /\ files' = << >>
    /\ pc' = "idle"
    /\ UNCHANGED <<envVars, triaged_exists, tickets_triaged, cur>>

\* triage_ticket_gemini called by itself
DirectGemini ==
    /\ Begin
    /\ args_model' = "gemini"
    /\ \E gem \in GeminiOutcomes :
          LET r == triage_ticket_gemini(MOCK_TICKET_CONTENT, gem)
          IN /\ adapterCalls' = <<[backend |-> "gemini", name |-> "",
                                   arg |-> MOCK_TICKET_CONTENT, cause |-> gem,
                                   result |-> r]>>
             /\ netCalls' = r.net
             /\ last' = [op |-> "direct",
                         status |-> IF r.raised THEN "raised" ELSE "ok",
                         exc |-> r.exc, entered |-> FALSE]
    /\ files' = << >>
    /\ pc' = "idle"
    /\ UNCHANGED <<envVars, triaged_exists, tickets_triaged, cur>>

(* ------------------------------ cleanup --------------------------------- *)
\* clean_triaged_directory: the glob.  A batch run after a cleanup is not in
\* succession with the run before it
CleanGlob ==
    /\ Begin
    /\ \E order \in Perms(glob_star(tickets_triaged)) : files' = order
    /\ last' = Running("clean")
    /\ netCalls' = << >>
    /\ adapterCalls' = << >>
    /\ pc' = "clean_loop"
    /\ cur' = NoRun
    /\ UNCHANGED <<envVars, triaged_exists, tickets_triaged, args_model>>

\* os.remove(f): removes a file, raises on a directory
CleanRemove ==
    /\ pc = "clean_loop"
    /\ files # << >>
    /\ LET f == Head(files)
       IN IF tickets_triaged[f].kind = "dir"
          THEN /\ last' = [last EXCEPT !.status = "raised",
                                       !.exc = Exc("IsADirectoryError", f)]
               /\ pc' = "idle"
               /\ UNCHANGED <<tickets_triaged, files>>
          ELSE /\ tickets_triaged' = RemoveFile(tickets_triaged, f)
               /\ files' = Tail(files)
               /\ pc' = "clean_loop"
               /\ UNCHANGED last
    /\ UNCHANGED <<envVars, triaged_exists, ops, args_model, pull, listing,
                   netCalls, reads, writes, adapterCalls, cur, triaged0>>

\* print("Cleaned the 'tickets-triaged' directory.")
CleanDone ==
    /\ pc = "clean_loop"
    /\ files = << >>
    /\ last' = [last EXCEPT !.status = "ok"]
    /\ pc' = "idle"
    /\ UNCHANGED <<envVars, triaged_exists, tickets_triaged, ops, args_model, pull,
                   listing, files, netCalls, reads, writes, adapterCalls, cur,
                   triaged0>>

Next ==
    \/ \E m \in {"ollama", "gemini"} : MainStart(m)
    \/ MainConfig
    \/ EnsureList
    \/ PullPost
    \/ PullIter
    \/ EnsureAfterPull
    \/ MainMkdir
    \/ MainLoop
    \/ MainDone
    \/ DirectOllama
    \/ DirectGemini
    \/ CleanGlob
    \/ CleanRemove
    \/ CleanDone

Spec == Init /\ [][Next]_vars

(* ----------------------------- properties ------------------------------ *)
Range(q) == { q[i] : i \in DOMAIN q }

MdNames == { n \in DOMAIN tickets_original : EndsWith(n, ".md") }

MainEnded == last.op = "main" /\ pc = "idle"

BackendRaised(c) == c.cause.kind \in {"raise", "client_raise", "generate_raise"}

\* C1: a batch run that reached its loop ends normally having written exactly
\* one file per entry of the input directory whose name ends in '.md'
C1_OneOutputPerMdEntry ==
    (MainEnded /\ last.entered) =>
        /\ last.status = "ok"
        /\ Range(writes) = MdNames
        /\ Len(writes) = Cardinality(MdNames)
        /\ \A n \in MdNames :
              n \in DOMAIN tickets_triaged /\ tickets_triaged[n].kind = "file"

\* C2: with the configuration present, an exception with message M raised by
\* the backend call never leaves the adapter, which returns
\* 'Error during Ollama triage: M' or 'Error during Gemini triage: M'
C2_BackendErrorsContained ==
    \A i \in DOMAIN adapterCalls :
        LET c == adapterCalls[i]
        IN (BackendRaised(c) /\ (c.backend = "ollama" => OLLAMA_MODEL.set /\ OLLAMA_MODEL.val # "")) =>
              /\ ~c.result.raised
              /\ c.backend = "ollama" =>
                    c.result.value = "Error during Ollama triage: " \o c.cause.msg
              /\ c.backend = "gemini" =>
                    c.result.value = "Error during Gemini triage: " \o c.cause.msg

C2_Witness ==
    /\ pc = "idle"
    /\ \E i \in DOMAIN adapterCalls :
          /\ adapterCalls[i].backend = "ollama"
          /\ adapterCalls[i].cause.kind = "raise"
          /\ adapterCalls[i].result.value = "Error during Ollama triage: Ollama API is down"

\* the pull met one of the failures: no 200 response, a connection error, a
\* line that is not JSON, a progress event with total 0 and no terminal status
PullFailed ==
    \/ pull.status_code # 200
    \/ pull.reqexc
    \/ \E i \in DOMAIN pull.lines :
          \/ pull.lines[i].kind = "malformed"
          \/ /\ pull.lines[i].kind = "json"
             /\ pull.lines[i].hasProgress
             /\ pull.lines[i].total = 0
             /\ pull.lines[i].status \notin {"success", "Download FINISHED"}

Pulled == \E i \in DOMAIN netCalls : netCalls[i].api = "POST /api/pull"

\* C3: a failure of the pull step is the result False and never an exception,
\* and a batch run that started a pull goes on to its loop over the tickets
C3_PullFailureIsFalse ==
    /\ (pc = "ensure_after_pull" /\ PullFailed) =>
            pull.result = "False" /\ pull.exc = NoExc
    /\ (MainEnded /\ Pulled) => last.entered

\* C4: with the local backend selected and OLLAMA_MODEL unset or empty, the
\* batch run and the direct call of the local adapter end with a ValueError
\* naming OLLAMA_MODEL, and make no network call, read no ticket and write no
\* file before that
C4_ConfigErrorBeforeAnything ==
    (/\ last.op \in {"main", "direct"}
     /\ args_model = "ollama"
     /\ (~OLLAMA_MODEL.set \/ OLLAMA_MODEL.val = "")) =>
        /\ netCalls = << >>
        /\ reads = << >>
        /\ writes = << >>
        /\ tickets_triaged = triaged0
        /\ pc = "idle" =>
              /\ last.status = "raised"
              /\ last.exc.type = "ValueError"
              /\ Contains(last.exc.msg, "OLLAMA_MODEL")

C4_Witness ==
    /\ MainEnded
    /\ args_model = "ollama"
    /\ OLLAMA_MODEL = Str("")
    /\ last.exc.type = "ValueError"
    /\ MdNames # {}

ListRaised ==
    \E i \in DOMAIN netCalls : netCalls[i].api = "ollama.list" /\ netCalls[i].raised

\* C5: when ollama.list raises, the batch run ends with that exception: no
\* pull is started, no ticket is read, no adapter is called, no file is written
C5_ListFailureAborts ==
    (last.op = "main" /\ ListRaised) =>
        /\ pc = "idle"
        /\ last.status = "raised"
        /\ last.exc = Exc("Exception", "connection refused")
        /\ ~last.entered
        /\ ~Pulled
        /\ reads = << >>
        /\ adapterCalls = << >>
        /\ writes = << >>
        /\ tickets_triaged = triaged0

C5_Witness ==
    /\ MainEnded
    /\ ListRaised
    /\ last.status = "raised"
    /\ MdNames # {}

\* C6: after a cleanup that completed, the output directory exists and holds
\* no file, its subdirectories are still there, and the input directory is as
\* it was
C6_CleanupLeavesNoFile ==
    (last.op = "clean" /\ pc = "idle" /\ last.status = "ok" /\ triaged_exists) =>
        /\ \A n \in DOMAIN tickets_triaged : tickets_triaged[n].kind # "file"
        /\ \A n \in DOMAIN triaged0 :
              triaged0[n].kind = "dir" => n \in DOMAIN tickets_triaged
        /\ tickets_original = original0

\* a batch run ends in this step, after a finished run with the same selector
SecondRunEnds ==
    /\ pc # "idle"
    /\ pc' = "idle"
    /\ last'.op = "main"
    /\ cur.valid
    /\ cur.model = args_model

\* C7: two batch runs in succession with the same selector, both ending
\* normally, leave the same files with the same bytes
C7_ByteIdentical ==
    [][(SecondRunEnds /\ cur.status = "ok" /\ last'.status = "ok") =>
          tickets_triaged' = cur.triaged]_vars

\* C7 as amended: the second run leaves every file of the first in place and
\* touches only the files it writes; a file both runs wrote has the same bytes
\* exactly when the adapter returned the same report for it in both runs; when
\* both runs end normally the set of files is the same
C7_SameReportSameBytes ==
    [][SecondRunEnds =>
          /\ \A n \in DOMAIN cur.triaged :
                /\ n \in DOMAIN tickets_triaged'
                /\ n \notin Range(writes') => tickets_triaged'[n] = cur.triaged[n]
          /\ \A n \in Range(writes') \cap DOMAIN cur.reports :
                (tickets_triaged'[n] = cur.triaged[n])
                    <=> (cur'.reports[n] = cur.reports[n])
          /\ (cur.status = "ok" /\ last'.status = "ok") =>
                DOMAIN tickets_triaged' = DOMAIN cur.triaged]_vars

C7_Witness ==
    /\ MainEnded
    /\ cur.seq = 2
    /\ cur.same
    /\ Len(writes) = 2
    /\ tickets_triaged = cur.triaged

\* C8: every processed ticket with text T had the adapter called once, on T,
\* and its file holds T, the status block, the triage separator and the
\* string the call returned; the input directory is never modified
C8_OutputIsTicketStatusReport ==
    /\ tickets_original = original0
    /\ last.op = "main" =>
          /\ \A i \in DOMAIN adapterCalls :
                /\ adapterCalls[i].arg = tickets_original[adapterCalls[i].name].content
                /\ adapterCalls[i].backend = args_model
                /\ \A j \in DOMAIN adapterCalls :
                      adapterCalls[j].name = adapterCalls[i].name => j = i
          /\ \A k \in DOMAIN writes :
                \E i \in DOMAIN adapterCalls :
                    /\ adapterCalls[i].name = writes[k]
                    /\ tickets_triaged[writes[k]] =
                          File(tickets_original[writes[k]].content
                               \o "\n\n---\n\n**Status:** new"
                               \o "\n\n---\n\n## Triage\n\n"
                               \o adapterCalls[i].result.value)

C8_Witness ==
    /\ MainEnded
    /\ last.status = "ok"
    /\ Len(writes) = 2
    /\ \E i \in DOMAIN adapterCalls : BackendRaised(adapterCalls[i])

\* C9: when the remote call does not raise, the remote adapter returns the
\* sentinel for an empty or missing text and the text itself otherwise; when
\* it raises, the result starts with 'Error during Gemini triage: ' and is
\* not the sentinel
C9_EmptyResponseSentinel ==
    \A i \in DOMAIN adapterCalls :
        LET c == adapterCalls[i]
        IN c.backend = "gemini" =>
              /\ (c.cause.kind = "ok" /\ (~c.cause.text.set \/ c.cause.text.val = "")) =>
                    c.result.value = "Error: Empty response from Gemini."
              /\ (c.cause.kind = "ok" /\ c.cause.text.set /\ c.cause.text.val # "") =>
                    c.result.value = c.cause.text.val
              /\ BackendRaised(c) =>
                    /\ StartsWith(c.result.value, "Error during Gemini triage: ")
                    /\ c.result.value # "Error: Empty response from Gemini."

C9_Witness ==
    /\ pc = "idle"
    /\ \E i \in DOMAIN adapterCalls :
          /\ adapterCalls[i].backend = "gemini"
          /\ adapterCalls[i].cause.kind = "ok"
          /\ ~adapterCalls[i].cause.text.set
          /\ adapterCalls[i].result.value = "Error: Empty response from Gemini."

\* the line is an event whose status holds 'success' or 'finished' in any case
KeywordLine(line) ==
    line.kind = "json" /\ line.hasStatus
        /\ line.status \in {"success", "Download FINISHED"}

\* C10: a pull that returned gave False exactly when the response was not 200
\* or a RequestException was caught; the first event with a completion keyword
\* ends it with True while lines may still be pending; a stream that ends
\* without such an event gives True as well
C10_PullOutcome ==
    (pc = "ensure_after_pull" /\ pull.result # "") =>
        /\ pull.result \in {"True", "False"}
        /\ (pull.result = "False") <=> (pull.status_code # 200 \/ pull.reqexc)
        /\ \A i \in DOMAIN pull.lines :
              KeywordLine(pull.lines[i]) =>
                  i = Len(pull.lines) /\ pull.result = "True"
        /\ (pull.status_code = 200 /\ ~pull.reqexc /\ ~pull.pending
              /\ \A i \in DOMAIN pull.lines : ~KeywordLine(pull.lines[i])) =>
                  pull.result = "True"

C10_Witness ==
    /\ pc = "ensure_after_pull"
    /\ pull.result = "True"
    /\ Len(pull.lines) >= 1
    /\ \A i \in DOMAIN pull.lines : ~KeywordLine(pull.lines[i])

====
